---- MODULE Spec2Model ----
(***************************************************************************)
(* Model of the offline synchronisation layer of the Pokedex application:  *)
(*   - the Pokedex store (features/pokedex/store/pokedex.store.ts): the    *)
(*     in-memory set caughtIds, the flag isInitialized and the four async  *)
(*     operations initialize, catchPokemon, releasePokemon and             *)
(*     updatePokemonNote, each split at its await points;                  *)
(*   - the durable table db.caughtPokemon (lib/db.ts), primary key id;     *)
(*   - the image adapter convertImageUrlToBase64 (utils/image-utils.ts);   *)
(*   - the list fetcher getPokemonList (services/pokemon.service.ts);      *)
(*   - the discovery feed usePokemonList, the detail resolver              *)
(*     usePokemonDetails and the search hook usePokemonSearch, each with   *)
(*     the queries of the query cache it observes.                         *)
(***************************************************************************)
EXTENDS Integers, Sequences, FiniteSets, TLC

\* ------------------------------------------------------------------ bounds
NumIds == 2
MaxOps == 3
MaxConcOps == 2
CatalogSize == 4
MaxLimit == 3
MaxNav == 1
IndexSize == 24
MaxInputs == 2

\* ------------------------------------------------------- program constants
MAX_NOTE_LENGTH == 200

Ids == 1..NumIds

VARIABLES
    caughtIds,      \* PokedexState.caughtIds
    isInitialized,  \* PokedexState.isInitialized
    rows,           \* the records of db.caughtPokemon
    calls,          \* store operations suspended at an await
    now,            \* number of store operations invoked so far; the clock of new Date()
    last,           \* what the most recent step did: operation, I/O issued, log line
    hist,           \* the two most recently invoked store operations and their outcomes
    col,            \* usePokedexCollection: selection mode, selection, pending releases
    lf,             \* the getPokemonList invocation
    feed,           \* usePokemonList: the pages of the infinite query
    dh,             \* usePokemonDetails: one mounted details screen
    sh              \* usePokemonSearch: one mounted search hook and its query cache

storeVars == <<caughtIds, isInitialized, rows, calls, now, last, hist, col>>
hookVars == <<feed, dh, sh>>
vars == <<caughtIds, isInitialized, rows, calls, now, last, hist, col, lf, feed, dh, sh>>

\* ------------------------------------------------------------ durable table
\* CaughtPokemon, reduced to the fields the store reads or writes.
NoNote == <<"undefined">>

CaughtPokemon(i, at, img, note) == [id |-> i, caughtAt |-> at, imageUrl |-> img, note |-> note]

RowIds == {r.id : r \in rows}

HasKey(i) == \E r \in rows : r.id = i

\* Table.add on a table whose primary key is id: the insert fails when the key
\* exists (ConstraintError) or when the write itself fails (quota, corruption).
\* Variant: put semantics, the insert does not look at the key.
AddPut(rec, fail) == ~fail

AddSucceeds(rec, fail) == ~fail /\ ~HasKey(rec.id)

AddRows(rec) == rows \cup {rec}

\* Table.bulkDelete(ids): one transaction, all keys or none.
BulkDeleteRows(ids) == {r \in rows : r.id \notin ids}

\* Variant: Table.put, the row is replaced, or created when there is none.
PutRows(i, note) ==
    {r \in rows : r.id # i} \cup {[id |-> i, caughtAt |-> 0, imageUrl |-> "url", note |-> note]}

\* Table.update(id, {note}): changes the note of the row with that key, if any.
UpdateRows(i, note) ==
    {IF r.id = i THEN [r EXCEPT !.note = note] ELSE r : r \in rows}

\* Table.toArray().map(p => p.id) collected into a Set.
ScanIds == RowIds

\* --------------------------------------------------------------- note text
WS == {" ", "\t", "\n"}

RECURSIVE TrimStart(_)
TrimStart(s) == IF s # <<>> /\ Head(s) \in WS THEN TrimStart(Tail(s)) ELSE s

RECURSIVE TrimEnd(_)
TrimEnd(s) ==
    IF s # <<>> /\ s[Len(s)] \in WS THEN TrimEnd(SubSeq(s, 1, Len(s) - 1)) ELSE s

Trim(s) == TrimEnd(TrimStart(s))

Substring(s, from, to) == SubSeq(s, from + 1, IF to < Len(s) THEN to ELSE Len(s))

\* Variant: the note is trimmed and written at its full length.
TrimmedNote(note) == Trim(note)

SafeNote(note) ==
    IF Len(Trim(note)) > MAX_NOTE_LENGTH
    THEN Substring(Trim(note), 0, MAX_NOTE_LENGTH)
    ELSE Trim(note)

LongNote == [k \in 1..250 |-> IF k = 200 THEN " " ELSE "x"]

NoteInputs == {<<" ", "a", " ", "b", "\n">>, LongNote}

\* ------------------------------------------------------------- bookkeeping
NoImg == "none"

Call(n, op, ids, prev, pc) ==
    [n |-> n, op |-> op, ids |-> ids, previousState |-> prev, pc |-> pc,
     at |-> 0, img |-> NoImg, note |-> NoNote]

Event(op, ev, n, ids, at, io, log) ==
    [op |-> op, ev |-> ev, n |-> n, ids |-> ids, at |-> at, io |-> io, log |-> log]

Entry(n, op, ids, pre) ==
    [n |-> n, op |-> op, ids |-> ids, pre |-> pre, post |-> pre, out |-> "pending"]

Keep2(h) == IF Len(h) > 2 THEN Tail(h) ELSE h

Invoked(h, e) == Keep2(Append(h, e))

Completed(h, n, out, post) ==
    [k \in DOMAIN h |->
        IF h[k].n = n THEN [h[k] EXCEPT !.out = out, !.post = post] ELSE h[k]]

Idle == [pc |-> "idle", limit |-> 0, offset |-> 0, listing |-> "none", refs |-> <<>>,
         settled |-> <<>>, order |-> <<>>, result |-> <<>>, warns |-> <<>>]

\* -------------------------------------------------------------------- Init
\* The infinite query before its first fetch: no page, nothing in flight.
\* listed[i] observes how many references the listing of page i returned.
FeedInit == [pc |-> "idle", pages |-> <<>>, pageParams |-> <<>>, listed |-> <<>>]
\* A query of the query cache: no data, nothing in flight.
NoQuery == [status |-> "pending", fetching |-> FALSE, data |-> <<>>]

\* Number(id) of the route; 0 stands for an id that is not a positive number.
Routes == 0..NumIds

\* The details screen before it is mounted; <<>> stands for undefined and null.
\* share observes the most recent handleShare: the identifier requested and the
\* record held when it ran, the link it built, what the browser offered and
\* what the copy came to.
DetailsInit ==
    [pc |-> "unmounted", id |-> 0, sharedDateStr |-> <<>>, localPokemon |-> <<>>,
     isLocalLoading |-> TRUE, lookups |-> {}, api |-> [k \in Routes |-> NoQuery], navs |-> 0,
     share |-> <<>>]
\* The search hook before it is mounted, with an empty query cache. names is the
\* query ['all-pokemon-names'], results[<<q, p>>] the query ['search-results', q, p];
\* inputs counts the query changes and loadMore calls, mores the loadMore calls
\* since the query string last changed; issued observes the hydration issued
\* most recently (its key, the loadMore calls the query string had seen, the
\* number of entries it resolves), late that a response for another key arrived
\* after the current key had its data. A query in error holds, as its error,
\* the position of the lookup that rejected its hydration. stats says that usePokedexStats, the
\* other observer of names, is mounted. searched, requested, loaded and again
\* observe that a query string of two characters or more was entered, that a
\* request was issued, that an index request succeeded, and that an index
\* request was issued after one had succeeded.
SearchInit ==
    [pc |-> "unmounted", searchQuery |-> <<>>, page |-> 1, names |-> NoQuery,
     results |-> <<>>, observed |-> <<>>, wasSearching |-> FALSE,
     lastDefined |-> <<>>, inputs |-> 0, mores |-> 0, issued |-> <<>>, late |-> FALSE,
     stats |-> FALSE, searched |-> FALSE, requested |-> FALSE, loaded |-> FALSE,
     again |-> FALSE]

\* The collection controller as mounted: selection mode off, nothing selected,
\* no handleRelease waiting.  handled counts the handleRelease calls and ran
\* observes what the most recent controller step did.
CollectionInit ==
    [isSelectionMode |-> FALSE, selectedIds |-> {}, awaiting |-> {}, handled |-> 0,
     ran |-> "none"]

InitRows == {{CaughtPokemon(i, 0, "b64", NoNote) : i \in S} : S \in SUBSET Ids}

Init ==
    /\ caughtIds = {}
    /\ isInitialized = FALSE
    /\ rows \in InitRows
    /\ calls = {}
    /\ now = 0
    /\ last = Event("none", "none", 0, {}, "none", "none", "none")
    /\ hist = <<>>
    /\ col = CollectionInit
    /\ lf = Idle
    /\ feed = FeedInit
    /\ dh = DetailsInit
    /\ sh = SearchInit

\* ------------------------------------------------- store: pure fragments
\* Variant: the duplicate guard is missing.
NeverDuplicate(currentIds, i) == FALSE

\* catchPokemon's duplicate guard: currentIds.has(pokemon.id).
IsDuplicate(currentIds, i) == i \in currentIds

\* Variant: the identifier is not added to the published set.
CatchNextStateStale(previousState, i) == previousState

\* catchPokemon's optimistic set: previousState plus the identifier.
CatchNextState(previousState, i) == previousState \cup {i}

\* Variants: only one of the given identifiers is removed; none is removed.
ReleaseFirstOnly(previousState, ids) == previousState \ {CHOOSE i \in ids : TRUE}

ReleaseNothing(previousState, ids) == previousState

\* releasePokemon's optimistic set: previousState minus every given identifier.
ReleaseNextState(previousState, ids) == previousState \ ids

\* Variant: the catch block publishes nothing.
NotRolledBack(c) == caughtIds

\* The set published by a catch block: set({ caughtIds: previousState }).
RolledBack(c) == c.previousState

\* ------------------------------------------------------ store: initialize
\* Variant: the isInitialized guard is missing, every call reads the table.
InitializeUnguarded ==
    /\ now' = now + 1
    /\ calls' = calls \cup {Call(now', "initialize", {}, caughtIds, "toArray")}
    /\ last' = Event("initialize", "call", now', {}, "entry", "toArray", "none")
    /\ UNCHANGED <<caughtIds, isInitialized, rows, lf, hookVars>>

InitializeCall ==
    /\ now' = now + 1
    /\ IF isInitialized
       THEN /\ calls' = calls
            /\ last' = Event("initialize", "return", now', {}, "entry", "none", "none")
       ELSE /\ calls' = calls \cup {Call(now', "initialize", {}, caughtIds, "toArray")}
            /\ last' = Event("initialize", "call", now', {}, "entry", "toArray", "none")
    /\ UNCHANGED <<caughtIds, isInitialized, rows, lf, hookVars>>

\* Variant: a failed read publishes an empty set and marks the store initialized.
ToArraySettleHard(c, fail) ==
    /\ c \in calls /\ c.op = "initialize" /\ c.pc = "toArray"
    /\ calls' = calls \ {c}
    /\ caughtIds' = IF fail THEN {} ELSE ScanIds
    /\ isInitialized' = TRUE
    /\ last' = Event("initialize", "return", c.n, {}, "toArray", "none",
                     IF fail THEN "error" ELSE "none")
    /\ UNCHANGED <<rows, now, lf, hookVars>>

ToArraySettle(c, fail) ==
    /\ c \in calls /\ c.op = "initialize" /\ c.pc = "toArray"
    /\ calls' = calls \ {c}
    /\ IF fail
       THEN /\ UNCHANGED <<caughtIds, isInitialized>>
            /\ last' = Event("initialize", "return", c.n, {}, "toArray", "none", "error")
       ELSE /\ caughtIds' = ScanIds
            /\ isInitialized' = TRUE
            /\ last' = Event("initialize", "return", c.n, {}, "toArray", "none", "none")
    /\ UNCHANGED <<rows, now, lf, hookVars>>

\* ---------------------------------------------------- store: catchPokemon
\* Lines 54-77: the synchronous part, up to the image fetch being issued.
CatchCall(i) ==
    /\ now' = now + 1
    /\ IF IsDuplicate(caughtIds, i)
       THEN /\ UNCHANGED <<caughtIds, calls>>
            /\ last' = Event("catchPokemon", "return", now', {i}, "entry", "none", "warn")
       ELSE /\ caughtIds' = CatchNextState(caughtIds, i)
            /\ calls' = calls \cup {Call(now', "catchPokemon", {i}, caughtIds, "convert")}
            /\ last' = Event("catchPokemon", "call", now', {i}, "entry", "fetch", "none")
    /\ UNCHANGED <<isInitialized, rows, lf, hookVars>>

\* convertImageUrlToBase64 settles: "b64" the data URL, "url" the original URL
\* (fetch or blob failed, caught inside the adapter), "reject" a FileReader
\* error, which rejects the promise the adapter returned without awaiting it.
ConvertOutcomes == {"b64", "url", "reject"}

ConvertSettle(c, outcome) ==
    /\ c \in calls /\ c.op = "catchPokemon" /\ c.pc = "convert"
    /\ IF outcome = "reject"
       THEN /\ caughtIds' = RolledBack(c)
            /\ calls' = calls \ {c}
            /\ last' = Event("catchPokemon", "return", c.n, c.ids, "convert", "none", "error")
       ELSE /\ caughtIds' = caughtIds
            /\ calls' = (calls \ {c}) \cup
                        {[c EXCEPT !.pc = "add", !.img = outcome, !.at = now]}
            /\ last' = Event("catchPokemon", "step", c.n, c.ids, "convert", "add", "none")
    /\ UNCHANGED <<isInitialized, rows, now, lf, hookVars>>

NewRecord(c) == CaughtPokemon(CHOOSE i \in c.ids : TRUE, c.at, c.img, NoNote)

AddSettle(c, fail) ==
    /\ c \in calls /\ c.op = "catchPokemon" /\ c.pc = "add"
    /\ calls' = calls \ {c}
    /\ IF AddSucceeds(NewRecord(c), fail)
       THEN /\ rows' = AddRows(NewRecord(c))
            /\ caughtIds' = caughtIds
            /\ last' = Event("catchPokemon", "return", c.n, c.ids, "add", "none", "none")
       ELSE /\ rows' = rows
            /\ caughtIds' = RolledBack(c)
            /\ last' = Event("catchPokemon", "return", c.n, c.ids, "add", "none", "error")
    /\ UNCHANGED <<isInitialized, now, lf, hookVars>>

\* -------------------------------------------------- store: releasePokemon
ReleaseCall(ids) ==
    /\ now' = now + 1
    /\ IF ids = {}
       THEN /\ UNCHANGED <<caughtIds, calls>>
            /\ last' = Event("releasePokemon", "return", now', ids, "entry", "none", "none")
       ELSE /\ caughtIds' = ReleaseNextState(caughtIds, ids)
            /\ calls' = calls \cup {Call(now', "releasePokemon", ids, caughtIds, "bulkDelete")}
            /\ last' = Event("releasePokemon", "call", now', ids, "entry", "bulkDelete", "none")
    /\ UNCHANGED <<isInitialized, rows, lf, hookVars>>

BulkDeleteSettle(c, fail) ==
    /\ c \in calls /\ c.op = "releasePokemon" /\ c.pc = "bulkDelete"
    /\ calls' = calls \ {c}
    /\ IF fail
       THEN /\ rows' = rows
            /\ caughtIds' = RolledBack(c)
            /\ last' = Event("releasePokemon", "return", c.n, c.ids, "bulkDelete", "none", "error")
       ELSE /\ rows' = BulkDeleteRows(c.ids)
            /\ caughtIds' = caughtIds
            /\ last' = Event("releasePokemon", "return", c.n, c.ids, "bulkDelete", "none", "none")
    /\ UNCHANGED <<isInitialized, now, lf, hookVars>>

\* ----------------------------------------------- store: updatePokemonNote
UpdateNoteCall(i, note) ==
    /\ now' = now + 1
    /\ calls' = calls \cup
           {[Call(now', "updatePokemonNote", {i}, caughtIds, "update")
                EXCEPT !.note = SafeNote(note)]}
    /\ last' = Event("updatePokemonNote", "call", now', {i}, "entry", "update",
                     IF Len(Trim(note)) > MAX_NOTE_LENGTH THEN "warn" ELSE "none")
    /\ UNCHANGED <<caughtIds, isInitialized, rows, lf, hookVars>>

UpdateSettle(c, fail) ==
    /\ c \in calls /\ c.op = "updatePokemonNote" /\ c.pc = "update"
    /\ calls' = calls \ {c}
    /\ IF fail
       THEN /\ rows' = rows
            /\ last' = Event("updatePokemonNote", "return", c.n, c.ids, "update", "none", "error")
       ELSE /\ rows' = UpdateRows(CHOOSE i \in c.ids : TRUE, c.note)
            /\ last' = Event("updatePokemonNote", "return", c.n, c.ids, "update", "none", "none")
    /\ UNCHANGED <<caughtIds, isInitialized, now, lf, hookVars>>

\* ------------------------------------------------------ store: scheduling
\* A persistence or image call that is outstanding settles, with either outcome.
SettleCall ==
    \E c \in calls :
        \/ \E fail \in BOOLEAN : ToArraySettle(c, fail)
        \/ \E outcome \in ConvertOutcomes : ConvertSettle(c, outcome)
        \/ \E fail \in BOOLEAN : AddSettle(c, fail)
        \/ \E fail \in BOOLEAN : BulkDeleteSettle(c, fail)
        \/ \E fail \in BOOLEAN : UpdateSettle(c, fail)

\* Any interleaving: operations are invoked while others are suspended.
Initialize == now < MaxConcOps /\ InitializeCall /\ UNCHANGED <<hist, col>>

CatchPokemon == now < MaxConcOps /\ (\E i \in Ids : CatchCall(i)) /\ UNCHANGED <<hist, col>>

ReleasePokemon ==
    now < MaxConcOps /\ (\E ids \in SUBSET Ids : ReleaseCall(ids)) /\ UNCHANGED <<hist, col>>

UpdatePokemonNote ==
    /\ now < MaxConcOps
    /\ \E i \in Ids, note \in NoteInputs : UpdateNoteCall(i, note)
    /\ UNCHANGED <<hist, col>>

Settle == SettleCall /\ UNCHANGED <<hist, col>>

Next == Initialize \/ CatchPokemon \/ ReleasePokemon \/ UpdatePokemonNote \/ Settle

Spec == Init /\ [][Next]_vars

\* Each call completes before the next starts.  The observer hist records, for
\* the two most recent calls, caughtIds at invocation and at completion.
Quiescent == calls = {}

Track ==
    hist' =
        IF last'.ev = "call"
        THEN Invoked(hist, Entry(last'.n, last'.op, last'.ids, caughtIds))
        ELSE IF last'.ev = "return" /\ now' # now
        THEN Completed(Invoked(hist, Entry(last'.n, last'.op, last'.ids, caughtIds)),
                       last'.n, "noop", caughtIds')
        ELSE IF last'.ev = "return"
        THEN Completed(hist, last'.n,
                       IF last'.log = "error" THEN "failed" ELSE "ok", caughtIds')
        ELSE hist

SeqInitialize == Quiescent /\ now < MaxOps /\ InitializeCall /\ Track /\ UNCHANGED col

SeqCatchPokemon == Quiescent /\ now < MaxOps /\ (\E i \in Ids : CatchCall(i)) /\ Track /\ UNCHANGED col

SeqReleasePokemon ==
    Quiescent /\ now < MaxOps /\ (\E ids \in SUBSET Ids : ReleaseCall(ids)) /\ Track /\ UNCHANGED col

SeqUpdatePokemonNote ==
    /\ Quiescent
    /\ now < MaxOps
    /\ \E i \in Ids, note \in NoteInputs : UpdateNoteCall(i, note)
    /\ Track /\ UNCHANGED col

SeqSettle == SettleCall /\ Track /\ UNCHANGED col

NextSeq ==
    SeqInitialize \/ SeqCatchPokemon \/ SeqReleasePokemon \/ SeqUpdatePokemonNote \/ SeqSettle

SpecSeq == Init /\ [][NextSeq]_vars

\* Overlapping mutations touch different identifiers; initialize runs alone.
InFlightIds == UNION {c.ids : c \in calls}

NoScanInFlight == \A c \in calls : c.op # "initialize"

IndepInitialize == Quiescent /\ now < MaxOps /\ InitializeCall /\ UNCHANGED <<hist, col>>

IndepCatchPokemon ==
    /\ NoScanInFlight
    /\ now < MaxOps
    /\ \E i \in Ids \ InFlightIds : CatchCall(i)
    /\ UNCHANGED <<hist, col>>

IndepReleasePokemon ==
    /\ NoScanInFlight
    /\ now < MaxOps
    /\ \E ids \in SUBSET (Ids \ InFlightIds) : ReleaseCall(ids)
    /\ UNCHANGED <<hist, col>>

IndepSettle == SettleCall /\ UNCHANGED <<hist, col>>

NextIndep == IndepInitialize \/ IndepCatchPokemon \/ IndepReleasePokemon \/ IndepSettle

SpecIndep == Init /\ [][NextIndep]_vars

\* Start-up: initialize may overlap a mutation; mutations do not overlap each other.
NoMutationInFlight == \A c \in calls : c.op = "initialize"

BootInitialize == now < MaxOps /\ InitializeCall /\ UNCHANGED <<hist, col>>

BootCatchPokemon ==
    NoMutationInFlight /\ now < MaxOps /\ (\E i \in Ids : CatchCall(i)) /\ UNCHANGED <<hist, col>>

BootReleasePokemon ==
    /\ NoMutationInFlight
    /\ now < MaxOps
    /\ \E ids \in SUBSET Ids : ReleaseCall(ids)
    /\ UNCHANGED <<hist, col>>

BootSettle == SettleCall /\ UNCHANGED <<hist, col>>

NextBoot == BootInitialize \/ BootCatchPokemon \/ BootReleasePokemon \/ BootSettle

SpecBoot == Init /\ [][NextBoot]_vars

\* --------------------------------- collection controller: usePokedexCollection
\* toggleSelectionMode: the mode flips and the selection is emptied.
ToggleSelectionMode ==
    /\ col' = [col EXCEPT !.isSelectionMode = ~@, !.selectedIds = {}, !.ran = "toggled"]
    /\ UNCHANGED <<caughtIds, isInitialized, rows, calls, now, last, hist, lf, hookVars>>

\* togglePokemonSelection(id)
TogglePokemonSelection(i) ==
    /\ col' = [col EXCEPT !.selectedIds = IF i \in @ THEN @ \ {i} ELSE @ \cup {i},
                          !.ran = "toggled"]
    /\ UNCHANGED <<caughtIds, isInitialized, rows, calls, now, last, hist, lf, hookVars>>

\* selectAll over the records listed (no filter applied).
SelectAll ==
    /\ col' = [col EXCEPT !.selectedIds = IF Cardinality(@) = Cardinality(rows)
                                          THEN {} ELSE RowIds,
                          !.ran = "toggled"]
    /\ UNCHANGED <<caughtIds, isInitialized, rows, calls, now, last, hist, lf, hookVars>>

\* Variant: the selection survives the release.
StillSelecting(c, n) == [c EXCEPT !.awaiting = @ \ {n}, !.ran = "resumed"]

\* handleRelease after its await: setIsSelectionMode(false), setSelectedIds(new Set()).
AfterRelease(c, n) ==
    [c EXCEPT !.isSelectionMode = FALSE, !.selectedIds = {}, !.awaiting = @ \ {n},
              !.ran = "resumed"]

\* handleRelease up to its await: nothing with an empty selection, else
\* releasePokemon(Array.from(selectedIds)) run up to its own await.
HandleRelease ==
    /\ col.handled < MaxConcOps
    /\ now < MaxConcOps
    /\ IF col.selectedIds = {}
       THEN /\ col' = [col EXCEPT !.handled = @ + 1, !.ran = "noop"]
            /\ UNCHANGED <<caughtIds, isInitialized, rows, calls, now, last>>
       ELSE /\ ReleaseCall(col.selectedIds)
            /\ col' = [col EXCEPT !.handled = @ + 1, !.awaiting = @ \cup {now'},
                                  !.ran = "called"]
    /\ UNCHANGED <<hist, lf, hookVars>>

\* The bulk delete settles, releasePokemon returns and the handleRelease that
\* awaited it goes on.
ReleaseSettles ==
    /\ \E c \in calls, fail \in BOOLEAN :
          /\ BulkDeleteSettle(c, fail)
          /\ col' = IF c.n \in col.awaiting THEN AfterRelease(col, c.n) ELSE col
    /\ UNCHANGED hist

\* The store is initialized from the table when the application starts.
CollectionBoot ==
    /\ Quiescent /\ now < MaxConcOps /\ ~isInitialized
    /\ InitializeCall
    /\ UNCHANGED <<hist, col>>

BootSettles ==
    /\ \E c \in calls, fail \in BOOLEAN : ToArraySettle(c, fail)
    /\ UNCHANGED <<hist, col>>

ToggleSelection == \E i \in Ids : TogglePokemonSelection(i)

NextCollection ==
    \/ CollectionBoot \/ BootSettles \/ ToggleSelectionMode \/ ToggleSelection
    \/ SelectAll \/ HandleRelease \/ ReleaseSettles

SpecCollection == Init /\ [][NextCollection]_vars

\* Captures only, overlapping freely: the catch button pressed again and again.
OverlappingCatch == now < MaxOps /\ (\E i \in Ids : CatchCall(i)) /\ UNCHANGED <<hist, col>>

CatchSettle ==
    /\ \E c \in calls :
          \/ \E outcome \in ConvertOutcomes : ConvertSettle(c, outcome)
          \/ \E fail \in BOOLEAN : AddSettle(c, fail)
    /\ UNCHANGED <<hist, col>>

NextCatch == OverlappingCatch \/ CatchSettle

SpecCatch == Init /\ [][NextCatch]_vars

\* ------------------------------------------------ list fetcher: getPokemonList
\* The remote catalog: references in identifier order, each a name and a URL
\* (its path segments, with the empty segment a trailing slash leaves).
Reference(k) == [name |-> k, url |-> <<"api", "v2", "pokemon", ToString(k), "">>]

Catalog == [k \in 1..CatalogSize |-> Reference(k)]

Min(a, b) == IF a < b THEN a ELSE b

\* GET /pokemon?limit=&offset= : the listing's results.
ListPage(limit, offset) == SubSeq(Catalog, offset + 1, Min(offset + limit, CatalogSize))

\* result.url.split('/').filter(Boolean).pop()
FilterBoolean(segs) == SelectSeq(segs, LAMBDA x : x # "")

IdFromUrl(url) == FilterBoolean(url)[Len(FilterBoolean(url))]

\* GET /pokemon/<id>, adapted: the entity, reduced to its identifier.
EntityOfId == [id \in {ToString(k) : k \in 1..(CatalogSize + IndexSize)} |->
                  CHOOSE k \in 1..(CatalogSize + IndexSize) : ToString(k) = id]

AdaptPokemon(id) == EntityOfId[id]

\* Variant: the values are collected as the lookups complete.
InCompletionOrder(refs, settled) ==
    LET done == SelectSeq(lf.order, LAMBDA k : settled[k] = "fulfilled")
    IN  [i \in 1..Len(done) |-> AdaptPokemon(IdFromUrl(refs[done[i]].url))]

\* results.filter(status === 'fulfilled').map(value), as positions then values.
RECURSIVE Fulfilled(_, _)
Fulfilled(refs, settled) ==
    IF refs = <<>> THEN <<>>
    ELSE (IF Head(settled) = "fulfilled" THEN <<AdaptPokemon(IdFromUrl(Head(refs).url))>> ELSE <<>>)
         \o Fulfilled(Tail(refs), Tail(settled))

\* Variant: the warning counts the successes.
SuccessCount(settled, successful) == Len(successful)

FailedCount(settled, successful) == Len(settled) - Len(successful)

Warnings(failedCount) == IF failedCount > 0 THEN <<failedCount>> ELSE <<>>

\* getPokemonList(limit, offset), suspended at the listing request.
Invocation(limit, offset) ==
    [Idle EXCEPT !.pc = "listing", !.limit = limit, !.offset = offset, !.listing = "pending"]

GetPokemonListCall(limit, offset) ==
    /\ lf.pc = "idle"
    /\ lf' = Invocation(limit, offset)
    /\ UNCHANGED <<storeVars, hookVars>>

ListingSettle(ok) ==
    /\ lf.pc = "listing"
    /\ lf' = IF ok
             THEN [lf EXCEPT !.pc = "details",
                             !.listing = "fulfilled",
                             !.refs = ListPage(lf.limit, lf.offset),
                             !.settled = [k \in 1..Len(ListPage(lf.limit, lf.offset))
                                            |-> "pending"]]
             ELSE [lf EXCEPT !.pc = "rejected", !.listing = "rejected"]
    /\ UNCHANGED <<storeVars, hookVars>>

\* Variant: Promise.all, the first rejected lookup rejects the call.
ShortCircuit(outcome) == IF outcome = "rejected" THEN "rejected" ELSE "details"

\* Promise.allSettled: a lookup that settles, either way, leaves the call waiting.
AwaitAllSettled(outcome) == "details"

DetailSettle(k, ok) ==
    /\ lf.pc = "details"
    /\ k \in DOMAIN lf.settled
    /\ lf.settled[k] = "pending"
    /\ lf' = [lf EXCEPT !.settled[k] = IF ok THEN "fulfilled" ELSE "rejected",
                        !.order = Append(@, k),
                        !.pc = AwaitAllSettled(IF ok THEN "fulfilled" ELSE "rejected")]
    /\ UNCHANGED <<storeVars, hookVars>>

\* Variant: the call returns as soon as one lookup has settled.
FirstSettled ==
    /\ lf.pc = "details"
    /\ \E k \in DOMAIN lf.settled : lf.settled[k] # "pending"
    /\ lf' = [lf EXCEPT
                !.pc = "returned",
                !.result = Fulfilled(lf.refs, lf.settled),
                !.warns = Warnings(FailedCount(lf.settled, Fulfilled(lf.refs, lf.settled)))]
    /\ UNCHANGED <<storeVars, hookVars>>

AllSettled ==
    /\ lf.pc = "details"
    /\ \A k \in DOMAIN lf.settled : lf.settled[k] # "pending"
    /\ lf' = [lf EXCEPT
                !.pc = "returned",
                !.result = Fulfilled(lf.refs, lf.settled),
                !.warns = Warnings(FailedCount(lf.settled, Fulfilled(lf.refs, lf.settled)))]
    /\ UNCHANGED <<storeVars, hookVars>>

GetPokemonList == \E limit \in 1..MaxLimit, offset \in 0..CatalogSize : GetPokemonListCall(limit, offset)

Listing == \E ok \in BOOLEAN : ListingSettle(ok)

Detail == \E k \in 1..MaxLimit, ok \in BOOLEAN : DetailSettle(k, ok)

NextList == GetPokemonList \/ Listing \/ Detail \/ AllSettled

SpecList == Init /\ [][NextList]_vars

\* Every request that is outstanding settles, and the continuation that waits
\* for the lookups runs once they have all settled.
SpecListLive ==
    SpecList /\ WF_vars(Listing) /\ WF_vars(Detail) /\ WF_vars(AllSettled)

\* ------------------------------------------------- discovery feed: usePokemonList
\* queryFn: getPokemonList(20, pageParam)
FeedLimit == 20

\* getNextPageParam: allPages.length * 20
FeedStride == 20

InitialPageParam == 0

\* getNextPageParam(lastPage, allPages); <<>> stands for undefined.
GetNextPageParam(lastPage, allPages) ==
    IF Len(lastPage) = 0 THEN <<>> ELSE <<Len(allPages) * FeedStride>>

\* The cursor of the next fetch: initialPageParam, then getNextPageParam.
NextPageParam ==
    IF feed.pages = <<>> THEN <<InitialPageParam>>
    ELSE GetNextPageParam(feed.pages[Len(feed.pages)], feed.pages)

HasNextPage == NextPageParam # <<>>

\* The first fetch on mount, fetchNextPage afterwards, a retry after an error.
FetchPage ==
    /\ feed.pc \in {"idle", "error"}
    /\ lf.pc = "idle"
    /\ HasNextPage
    /\ feed' = [feed EXCEPT !.pc = "fetching"]
    /\ lf' = Invocation(FeedLimit, NextPageParam[1])
    /\ UNCHANGED <<storeVars, dh, sh>>

\* queryFn's promise fulfilled: the page and its cursor are appended.
PageFulfilled ==
    /\ feed.pc = "fetching"
    /\ lf.pc = "returned"
    /\ feed' = [feed EXCEPT !.pc = "idle",
                            !.pages = Append(@, lf.result),
                            !.pageParams = Append(@, lf.offset),
                            !.listed = Append(@, Len(lf.refs))]
    /\ lf' = Idle
    /\ UNCHANGED <<storeVars, dh, sh>>

\* queryFn's promise rejected: the pages loaded so far are kept.
PageRejected ==
    /\ feed.pc = "fetching"
    /\ lf.pc = "rejected"
    /\ feed' = [feed EXCEPT !.pc = "error"]
    /\ lf' = Idle
    /\ UNCHANGED <<storeVars, dh, sh>>

FeedDetail == \E k \in 1..CatalogSize, ok \in BOOLEAN : DetailSettle(k, ok)

NextFeed == FetchPage \/ Listing \/ FeedDetail \/ AllSettled \/ PageFulfilled \/ PageRejected

SpecFeed == Init /\ [][NextFeed]_vars

\* ------------------------------------------ detail resolver: usePokemonDetails
\* searchParams.get('caughtAt'): null, or the string of the parameter.
Markers == {<<>>, <<"">>, <<"2024-05-01T10:00:00.000Z">>, <<"yesterday">>}

\* !!sharedDateStr
IsSharedView(sharedDateStr) == sharedDateStr # <<>> /\ sharedDateStr[1] # ""

\* new Date(string): the instant an ISO string denotes, Invalid Date otherwise.
NewDate(str) ==
    [time |-> IF str = "2024-05-01T10:00:00.000Z" THEN "2024-05-01T10:00:00.000Z"
              ELSE "Invalid Date"]

\* new Date(localPokemon.caughtAt): a copy of the stored instant.
CopyDate(at) == [time |-> ToString(at)]

\* db.caughtPokemon.get(id)
Get(i) == IF HasKey(i) THEN <<CHOOSE r \in rows : r.id = i>> ELSE <<>>

\* getPokemonById(id): the remote entity, reduced to identifier and image.
GetPokemonById(i) == [id |-> i, imageUrl |-> "url"]

\* Variant: the local copy wins whenever there is one.
LocalFirst(isSharedView, localPokemon, apiPokemon) ==
    IF localPokemon # <<>> THEN localPokemon ELSE apiPokemon

\* The merged entity (useMemo, cases A, B, C).
Pokemon(isSharedView, localPokemon, apiPokemon) ==
    IF isSharedView THEN apiPokemon
    ELSE IF localPokemon # <<>> THEN localPokemon
    ELSE apiPokemon

\* Variant: the record's own capture date comes first.
LocalDateFirst(sharedDateStr, localPokemon) ==
    IF localPokemon # <<>> THEN <<CopyDate(localPokemon[1].caughtAt)>>
    ELSE IF IsSharedView(sharedDateStr) THEN <<NewDate(sharedDateStr[1])>>
    ELSE <<>>

\* The date shown (useMemo displayDate).
DisplayDate(sharedDateStr, localPokemon) ==
    IF IsSharedView(sharedDateStr) THEN <<NewDate(sharedDateStr[1])>>
    ELSE IF localPokemon # <<>> THEN <<CopyDate(localPokemon[1].caughtAt)>>
    ELSE <<>>

\* What useQuery returns for the key ['pokemon', pokemonId].
ApiPokemon == dh.api[dh.id].data

IsApiLoading == dh.api[dh.id].fetching /\ dh.api[dh.id].status = "pending"

IsApiError == dh.api[dh.id].status = "error"

\* Variant: the local lookup counts in every view.
LoadingAnyView(isApiLoading, isLocalLoading, isSharedView, pokemon) ==
    (isApiLoading \/ isLocalLoading) /\ pokemon = <<>>

IsEffectiveLoading(isApiLoading, isLocalLoading, isSharedView, pokemon) ==
    (isApiLoading \/ (isLocalLoading /\ ~isSharedView)) /\ pokemon = <<>>

\* Variant: the error does not wait for the local lookup.
ErrorWhileLooking(isApiError, localPokemon, isSharedView, isLocalLoading) ==
    isApiError /\ localPokemon = <<>> /\ ~isSharedView

IsEffectiveError(isApiError, localPokemon, isSharedView, isLocalLoading) ==
    isApiError /\ localPokemon = <<>> /\ ~isSharedView /\ ~isLocalLoading

\* The values the hook returns.
ResolvedPokemon == Pokemon(IsSharedView(dh.sharedDateStr), dh.localPokemon, ApiPokemon)

ResolvedDate == DisplayDate(dh.sharedDateStr, dh.localPokemon)

IsLoading ==
    IsEffectiveLoading(IsApiLoading, dh.isLocalLoading, IsSharedView(dh.sharedDateStr),
                       ResolvedPokemon)

IsError ==
    IsEffectiveError(IsApiError, dh.localPokemon, IsSharedView(dh.sharedDateStr),
                     dh.isLocalLoading)

\* useQuery on a key it was not observing: enabled (!!pokemonId) and without
\* data, the query starts fetching and an earlier error is cleared.
Observe(api, i) ==
    IF i # 0 /\ ~api[i].fetching /\ api[i].data = <<>>
    THEN [api EXCEPT ![i] = [status |-> "pending", fetching |-> TRUE, data |-> <<>>]]
    ELSE api

\* First render of the screen for a route.
Mount(i, marker) ==
    /\ dh.pc = "unmounted"
    /\ dh' = [dh EXCEPT !.pc = "rendered", !.id = i, !.sharedDateStr = marker,
                        !.api = Observe(dh.api, i)]
    /\ UNCHANGED <<storeVars, lf, feed, sh>>

\* The route changes under the mounted screen: its state is kept, and the
\* lookup effect is due when the identifier changed.
Navigate(i, marker) ==
    /\ dh.pc = "mounted"
    /\ dh.navs < MaxNav
    /\ <<i, marker>> # <<dh.id, dh.sharedDateStr>>
    /\ dh' = [dh EXCEPT !.pc = IF i # dh.id THEN "rendered" ELSE "mounted",
                        !.id = i, !.sharedDateStr = marker,
                        !.api = Observe(dh.api, i),
                        !.navs = @ + 1]
    /\ UNCHANGED <<storeVars, lf, feed, sh>>

\* useEffect on [pokemonId]: the cleanup of the previous run, then
\* setIsLocalLoading(true) and db.caughtPokemon.get(pokemonId).
LookupEffect ==
    /\ dh.pc = "rendered"
    /\ dh' = [dh EXCEPT !.pc = "mounted",
                        !.isLocalLoading = TRUE,
                        !.lookups = {[l EXCEPT !.mounted = FALSE] : l \in dh.lookups}
                                    \cup {[id |-> dh.id, n |-> dh.navs, mounted |-> TRUE]}]
    /\ UNCHANGED <<storeVars, lf, feed, sh>>

\* The lookup settles: then / catch / finally, each guarded by mounted.
LookupSettle(l, fail) ==
    /\ dh.pc = "mounted"
    /\ l \in dh.lookups
    /\ dh' = [dh EXCEPT !.lookups = @ \ {l},
                        !.localPokemon = IF l.mounted /\ ~fail THEN Get(l.id) ELSE @,
                        !.isLocalLoading = IF l.mounted THEN FALSE ELSE @]
    /\ UNCHANGED <<storeVars, lf, feed, sh>>

\* The remote fetch of a key settles (after its one retry when it fails).
ApiSettle(i, ok) ==
    /\ dh.pc = "mounted"
    /\ dh.api[i].fetching
    /\ dh' = [dh EXCEPT !.api[i] =
                 IF ok THEN [status |-> "success", fetching |-> FALSE,
                             data |-> <<GetPokemonById(i)>>]
                 ELSE [@ EXCEPT !.status = "error", !.fetching = FALSE]]
    /\ UNCHANGED <<storeVars, lf, feed, sh>>

\* The observed query has data and is fetched again (stale, reconnect).
Refetch ==
    /\ dh.pc = "mounted"
    /\ dh.id # 0
    /\ dh.api[dh.id].data # <<>>
    /\ ~dh.api[dh.id].fetching
    /\ dh' = [dh EXCEPT !.api[dh.id].fetching = TRUE]
    /\ UNCHANGED <<storeVars, lf, feed, sh>>

OpenDetails == \E i \in Routes, marker \in Markers : Mount(i, marker)

ChangeRoute == \E i \in Routes, marker \in Markers : Navigate(i, marker)

LocalLookup == \E l \in dh.lookups, fail \in BOOLEAN : LookupSettle(l, fail)

RemoteFetch == \E i \in Routes, ok \in BOOLEAN : ApiSettle(i, ok)

NextDetails ==
    OpenDetails \/ ChangeRoute \/ LookupEffect \/ LocalLookup \/ RemoteFetch \/ Refetch

SpecDetails == Init /\ [][NextDetails]_vars

\* ------------------------------------------- detail resolver: handleShare
\* Date.prototype.toISOString of a stored instant.
ToISOString(at) == "T" \o ToString(at)

\* window.location.origin
Origin == "https://pokedex.app"

\* Lines 113-120: the link, with the caughtAt parameter when the record held
\* has a capture date.
ShareUrl(id, localPokemon) ==
    [origin |-> Origin, path |-> <<"pokemon", id>>,
     caughtAt |-> IF localPokemon # <<>>
                  THEN <<ToISOString(localPokemon[1].caughtAt)>>
                  ELSE <<>>]

\* The fallback: document.execCommand('copy') returns a boolean or throws.
LegacyCopy(modern, legacy) ==
    [modern |-> modern, legacy |-> 1, result |-> legacy = "true",
     log |-> IF legacy = "throw" THEN "error" ELSE "none"]

\* Variant: there is no fallback, the failure of the modern call is the answer.
CopyWithoutFallback(clipboard, secure, write, legacy) ==
    IF clipboard /\ secure
    THEN [modern |-> 1, legacy |-> 0, result |-> write = "ok", log |-> "none"]
    ELSE [modern |-> 0, legacy |-> 0, result |-> FALSE, log |-> "none"]

\* Lines 122-147: navigator.clipboard.writeText when navigator.clipboard and
\* window.isSecureContext are truthy, the fallback when they are not or when
\* writeText rejects.  modern and legacy count the attempts.
CopyText(clipboard, secure, write, legacy) ==
    IF clipboard /\ secure
    THEN IF write = "ok"
         THEN [modern |-> 1, legacy |-> 0, result |-> TRUE, log |-> "none"]
         ELSE LegacyCopy(1, legacy)
    ELSE LegacyCopy(0, legacy)

HandleShareCall(clipboard, secure, write, legacy) ==
    /\ dh.pc = "mounted"
    /\ dh' = [dh EXCEPT !.share =
                 <<[id |-> dh.id, local |-> dh.localPokemon,
                    url |-> ShareUrl(dh.id, dh.localPokemon),
                    offered |-> [clipboard |-> clipboard, secure |-> secure,
                                 write |-> write, legacy |-> legacy],
                    copy |-> CopyText(clipboard, secure, write, legacy)]>>]
    /\ UNCHANGED <<storeVars, lf, feed, sh>>

\* handleShare in a browser whose clipboard works.
ShareLink == HandleShareCall(TRUE, TRUE, "ok", "true")

NextShare == OpenDetails \/ ChangeRoute \/ LookupEffect \/ LocalLookup \/ ShareLink

SpecShare == Init /\ [][NextShare]_vars

\* handleShare in every browser: with or without the clipboard API, in a secure
\* context or not, each copy succeeding, failing or throwing.
HandleShare ==
    \E clipboard \in BOOLEAN, secure \in BOOLEAN, write \in {"ok", "throw"},
       legacy \in {"true", "false", "throw"} :
        HandleShareCall(clipboard, secure, write, legacy)

NextClipboard == OpenDetails \/ LookupEffect \/ LocalLookup \/ HandleShare

SpecClipboard == Init /\ [][NextClipboard]_vars

\* ------------------------------------------------ search: usePokemonSearch
\* Strings are sequences of characters.
ToLowerCase(str) ==
    [i \in 1..Len(str) |->
        CASE str[i] = "B" -> "b"
          [] str[i] = "I" -> "i"
          [] str[i] = "P" -> "p"
          [] str[i] = "U" -> "u"
          [] OTHER -> str[i]]

StartsWith(str, prefix) ==
    Len(prefix) <= Len(str) /\ SubSeq(str, 1, Len(prefix)) = prefix

\* Variant: the query is compared as typed.
CaseSensitive(name, query) == StartsWith(name, query)

\* p.name.toLowerCase().startsWith(searchQuery.toLowerCase())
Matches(name, query) == StartsWith(ToLowerCase(name), ToLowerCase(query))

\* Array.prototype.slice(0, n)
Slice(seq, n) == SubSeq(seq, 1, Min(n, Len(seq)))

\* The display names of the remote catalog, in identifier order.
NameOf(k) ==
    IF k % 8 = 0 THEN <<"B", "u", "l", ToString(k)>>
    ELSE IF k % 2 = 1 THEN <<"p", "i", "k", ToString(k)>>
    ELSE <<"P", "i", "d", ToString(k)>>

\* getAllPokemonNames(): name and url of every catalog item.
AllPokemonNames == [k \in 1..IndexSize |-> [name |-> NameOf(k), url |-> Reference(k).url]]

\* The strings typed into the search box.
Queries == {<<"p">>, <<"p", "i">>, <<"P", "I">>, <<"b", "u">>}

\* allNames.filter(...)
Filtered(allNames, searchQuery) ==
    SelectSeq(allNames, LAMBDA e : Matches(e.name, searchQuery))

\* Hydration page size: filtered.slice(0, 20 * page)
SearchPageSize == 20

\* Variant: only the entries of the page asked for.
PageWindow(allNames, searchQuery, page) ==
    LET filtered == Filtered(allNames, searchQuery)
    IN  SubSeq(filtered, SearchPageSize * (page - 1) + 1,
               Min(SearchPageSize * page, Len(filtered)))

ItemsToShow(allNames, searchQuery, page) ==
    Slice(Filtered(allNames, searchQuery), SearchPageSize * page)

\* Promise.all of the lookups, all fulfilled: the adapted entities, in order.
Hydrated(items) == [i \in 1..Len(items) |-> AdaptPokemon(IdFromUrl(items[i].url))]

\* The lookups of a hydration that fail: none, the first, the last, or all.
FailureSets(n) == {{}} \cup IF n = 0 THEN {} ELSE {{1}, {n}, 1..n}

\* The orders in which the lookups of a hydration complete: that of the
\* entries, or the reverse.
CompletionOrders(n) == {[i \in 1..n |-> i], [i \in 1..n |-> n + 1 - i]}

\* Variant: the lookups that failed are dropped, as getPokemonList does.
DropFailed(items, failed, order) ==
    <<Hydrated(SelectSeq([i \in 1..Len(items) |-> [items[i] EXCEPT !.name = i]],
                         LAMBDA e : e.name \notin failed))>>

\* Promise.all(promises): every entity, at the position of its promise
\* whatever the order of completion, when every lookup is fulfilled; a
\* rejection (<<>>, no data) as soon as one is rejected.
PromiseAll(items, failed, order) == IF failed = {} THEN <<Hydrated(items)>> ELSE <<>>

\* data of the results observer: the data of the query of the key, else, while
\* that query is pending, the data of the last observed query that had data
\* (placeholderData: keepPreviousData); <<>> stands for undefined.
ObserverData(res, key, defined) ==
    IF key \in DOMAIN res /\ res[key].data # <<>> THEN res[key].data
    ELSE IF defined # <<>> /\ (key \notin DOMAIN res \/ res[key].status = "pending")
         THEN res[defined[1]].data
    ELSE <<>>

\* What the hook computes in a render.
IsSearching == Len(sh.searchQuery) >= 2

AllNames == sh.names.data

CurrentKey == <<sh.searchQuery, sh.page>>

SearchResults == ObserverData(sh.results, CurrentKey, sh.lastDefined)

TotalResults ==
    IF AllNames # <<>> THEN Len(Filtered(AllNames[1], sh.searchQuery)) ELSE 0

CurrentCount == IF SearchResults # <<>> THEN Len(SearchResults[1]) ELSE 0

\* Variant: more is offered while the count has not passed the total.
HasMoreOrEqual == CurrentCount <= TotalResults

HasMoreResults == CurrentCount < TotalResults

\* A render with query string q and page p: both observers take their options.
\* The index query fetches when it becomes enabled without data; the results
\* query of the key <<q, p>> fetches when the observer comes to it enabled
\* and it has no data, running queryFn up to its first await.
Render(s, q, p) ==
    LET searching == Len(q) >= 2
        fetchNames == searching /\ ~s.wasSearching /\ s.names.data = <<>> /\ ~s.names.fetching
        names == IF fetchNames
                 THEN [status |-> "pending", fetching |-> TRUE, data |-> <<>>]
                 ELSE s.names
        key == <<q, p>>
        enabled == searching /\ names.data # <<>>
        known == key \in DOMAIN s.results
        fetchResults == /\ enabled
                        /\ s.observed # <<key, TRUE>>
                        /\ ~known \/ (s.results[key].data = <<>> /\ ~s.results[key].fetching)
        pendingQuery == [status |-> "pending", fetching |-> TRUE, data |-> <<>>]
        results == IF fetchResults
                   THEN [k \in DOMAIN s.results \cup {key} |->
                            IF k = key THEN pendingQuery ELSE s.results[k]]
                   ELSE s.results
        issued == IF fetchResults
                  THEN <<[key |-> key, mores |-> s.mores,
                          count |-> Len(ItemsToShow(names.data[1], q, p))]>>
                  ELSE s.issued
    IN  [s EXCEPT !.searchQuery = q, !.page = p, !.names = names, !.results = results,
                  !.issued = issued, !.observed = <<key, enabled>>,
                  !.wasSearching = searching,
                  !.lastDefined = IF known /\ s.results[key].data # <<>> THEN <<key>> ELSE @,
                  !.searched = @ \/ searching,
                  !.requested = @ \/ fetchNames \/ fetchResults,
                  !.again = @ \/ (fetchNames /\ s.loaded)]

\* The hook is mounted with a query string; page starts at 1.
MountSearch(q) ==
    /\ sh.pc = "unmounted"
    /\ sh' = [Render(sh, q, 1) EXCEPT !.pc = "settled"]
    /\ UNCHANGED <<storeVars, lf, feed, dh>>

\* The searchQuery prop changes: the render uses the page of the state as it
\* is; the effect on [searchQuery] that calls setPage(1) runs after it.
Type(q) ==
    /\ sh.pc = "settled"
    /\ sh.inputs < MaxInputs
    /\ q # sh.searchQuery
    /\ sh' = [Render([sh EXCEPT !.mores = 0], q, sh.page) EXCEPT
                 !.pc = IF sh.page = 1 THEN "settled" ELSE "reset",
                 !.inputs = @ + 1]
    /\ UNCHANGED <<storeVars, lf, feed, dh>>

\* setPage(1) of the effect takes hold: the render with page 1.
ResetPage ==
    /\ sh.pc = "reset"
    /\ sh' = [Render(sh, sh.searchQuery, 1) EXCEPT !.pc = "settled"]
    /\ UNCHANGED <<storeVars, lf, feed, dh>>

\* loadMore, offered by the page while searching with more results to show.
LoadMore ==
    /\ sh.pc = "settled"
    /\ IsSearching
    /\ HasMoreResults
    /\ sh.inputs < MaxInputs
    /\ sh' = Render([sh EXCEPT !.mores = @ + 1, !.inputs = @ + 1],
                    sh.searchQuery, sh.page + 1)
    /\ UNCHANGED <<storeVars, lf, feed, dh>>

\* The search hook is unmounted: its state and its observers go, the query
\* cache stays.
UnmountSearch ==
    /\ sh.pc = "settled"
    /\ sh.inputs < MaxInputs
    /\ sh' = [sh EXCEPT !.pc = "unmounted", !.searchQuery = <<>>, !.page = 1,
                        !.observed = <<>>, !.wasSearching = FALSE, !.lastDefined = <<>>,
                        !.mores = 0, !.inputs = @ + 1]
    /\ UNCHANGED <<storeVars, lf, feed, dh>>

\* usePokedexStats is mounted: its observer of names is always enabled and
\* fetches when the query has no data.
MountStats ==
    /\ ~sh.stats
    /\ sh.pc # "reset"
    /\ sh.inputs < MaxInputs
    /\ sh' = IF sh.names.data = <<>> /\ ~sh.names.fetching
             THEN [sh EXCEPT !.stats = TRUE, !.inputs = @ + 1,
                             !.names = [status |-> "pending", fetching |-> TRUE, data |-> <<>>],
                             !.requested = TRUE,
                             !.again = @ \/ sh.loaded]
             ELSE [sh EXCEPT !.stats = TRUE, !.inputs = @ + 1]
    /\ UNCHANGED <<storeVars, lf, feed, dh>>

UnmountStats ==
    /\ sh.stats
    /\ sh.pc # "reset"
    /\ sh.inputs < MaxInputs
    /\ sh' = [sh EXCEPT !.stats = FALSE, !.inputs = @ + 1]
    /\ UNCHANGED <<storeVars, lf, feed, dh>>

\* The query cache removes names once it has had no observer for gcTime and
\* nothing is in flight for it.
CollectNames ==
    /\ sh.pc = "unmounted"
    /\ ~sh.stats
    /\ ~sh.names.fetching
    /\ sh.names # NoQuery
    /\ sh' = [sh EXCEPT !.names = NoQuery]
    /\ UNCHANGED <<storeVars, lf, feed, dh>>

\* getAllPokemonNames settles; on success the results query of a mounted
\* search hook becomes enabled.
NamesSettle(ok) ==
    /\ sh.pc # "reset"
    /\ sh.names.fetching
    /\ sh' = IF ok
             THEN LET s == [sh EXCEPT !.names = [status |-> "success", fetching |-> FALSE,
                                                data |-> <<AllPokemonNames>>],
                                     !.loaded = TRUE]
                  IN  IF sh.pc = "settled" THEN Render(s, sh.searchQuery, sh.page) ELSE s
             ELSE [sh EXCEPT !.names = [status |-> "error", fetching |-> FALSE, data |-> <<>>]]
    /\ UNCHANGED <<storeVars, lf, feed, dh>>

\* The hydration of a key settles: Promise.all fulfils with every entity, or
\* rejects when one lookup fails. queryFn closed over the index, the query
\* string and the page of the render that built the key.
\* Variant: last response wins, the response lands in the observed query.
ObservedEntry(key, current) == current

\* The cache entry a response is written to: the query of its own key.
CacheEntry(key, current) == key

HydrationSettle(key, failed, order) ==
    /\ sh.pc # "reset"
    /\ key \in DOMAIN sh.results
    /\ sh.results[key].fetching
    /\ LET items == ItemsToShow(AllPokemonNames, key[1], key[2])
           data == PromiseAll(items, failed, order)
           ok == data # <<>>
       IN sh' = [sh EXCEPT
                !.results[key].fetching = FALSE,
                !.late = @ \/ (sh.pc = "settled" /\ key # CurrentKey
                                  /\ CurrentKey \in DOMAIN sh.results
                                  /\ sh.results[CurrentKey].data # <<>>),
                !.results[CacheEntry(key, CurrentKey)] =
                    IF ok THEN [status |-> "success", fetching |-> FALSE, data |-> data]
                    ELSE [status |-> "error", fetching |-> FALSE, data |-> <<>>,
                          error |-> CHOOSE k \in failed : \A j \in failed : k <= j],
                !.lastDefined = IF ok /\ sh.pc = "settled" /\ key = CurrentKey
                                THEN <<key>> ELSE @]
    /\ UNCHANGED <<storeVars, lf, feed, dh>>

OpenSearch == \E q \in Queries : MountSearch(q)

TypeQuery == \E q \in Queries : Type(q)

IndexFetch == \E ok \in BOOLEAN : NamesSettle(ok)

Hydration ==
    \E key \in DOMAIN sh.results :
        LET n == Len(ItemsToShow(AllPokemonNames, key[1], key[2]))
        IN  \E failed \in FailureSets(n), order \in CompletionOrders(n) :
                HydrationSettle(key, failed, order)

NextSearch == OpenSearch \/ TypeQuery \/ ResetPage \/ LoadMore \/ IndexFetch \/ Hydration

\* The search hook never reads the durable table: it starts empty here.
InitSearch == Init /\ rows = {}

SpecSearch == InitSearch /\ [][NextSearch]_vars

\* The search hook and usePokedexStats coming and going over one query cache.
CloseSearch == UnmountSearch

OpenStats == MountStats

CloseStats == UnmountStats

NextIndex ==
    \/ OpenSearch \/ TypeQuery \/ ResetPage \/ LoadMore \/ IndexFetch \/ Hydration
    \/ CloseSearch \/ OpenStats \/ CloseStats \/ CollectNames

SpecIndex == InitSearch /\ [][NextIndex]_vars

\* The two parallel fetchers side by side: a list page and the hydration of
\* the query the search hook is mounted with.
NextOrder ==
    GetPokemonList \/ Listing \/ Detail \/ AllSettled \/ OpenSearch \/ IndexFetch \/ Hydration

SpecOrder == InitSearch /\ [][NextOrder]_vars

\* ===================================================================== claims
LastCall == hist[Len(hist)]

\* C1: when catchPokemon for an identifier not in caughtIds runs alone and the
\* durable insert fails, the call returns and caughtIds is again what it was
\* when the call was made.
C1_RollbackOnInsertFailure ==
    (last.op = "catchPokemon" /\ last.at = "add" /\ last.log = "error")
        => /\ last.ev = "return"
           /\ Quiescent
           /\ LastCall.n = last.n
           /\ LastCall.ids \cap LastCall.pre = {}
           /\ caughtIds = LastCall.pre

C1_Witness ==
    /\ last.op = "catchPokemon" /\ last.at = "add" /\ last.log = "error"
    /\ caughtIds # {}
    /\ LastCall.ids \cap RowIds = {}

\* C2: a catchPokemon call for an identifier already in caughtIds issues no
\* image fetch and no durable-store call, suspends nothing, and leaves caughtIds
\* and the table as they were.
C2_DuplicateCaptureIsNoOp ==
    [][(now' # now /\ last'.op = "catchPokemon" /\ last'.ids \subseteq caughtIds)
        => /\ last'.io = "none"
           /\ last'.ev = "return"
           /\ calls' = calls
           /\ rows' = rows
           /\ caughtIds' = caughtIds]_vars

C2_Witness ==
    /\ last.op = "catchPokemon" /\ last.at = "entry" /\ last.log = "warn"
    /\ last.ids \subseteq caughtIds

\* C3: once initialize has succeeded, with calls made one after the other and
\* any of their durable-store calls failing, caughtIds is the set of identifiers
\* of the table's records whenever no call is in flight.
C3_SequentialConsistency ==
    (isInitialized /\ Quiescent) => caughtIds = {r.id : r \in rows}

C3_Witness ==
    /\ isInitialized /\ Quiescent
    /\ Len(hist) = 2
    /\ hist[1].op = "catchPokemon" /\ hist[1].out = "ok"
    /\ hist[2].op = "releasePokemon" /\ hist[2].out = "failed"

\* C4: when overlapping catchPokemon and releasePokemon calls touch different
\* identifiers, then once all have completed each identifier is in caughtIds
\* exactly when the table holds a record for it.
C4_IndependentMutations ==
    (isInitialized /\ calls = {}) => \A i \in Ids : (i \in caughtIds) <=> HasKey(i)

\* C5: once initialize has succeeded and every call has completed, caughtIds is
\* the identifier projection of the table, also when a mutation was made while
\* the table scan was outstanding.
C5_ConsistentAfterStartUp ==
    (isInitialized /\ Cardinality(calls) = 0) => RowIds = caughtIds

\* C6: when add is invoked caughtIds contains the captured identifier, and when
\* bulkDelete is invoked caughtIds contains none of the released identifiers.
C6_OptimisticBeforePersistence ==
    /\ last.io = "add" => last.ids \subseteq caughtIds
    /\ last.io = "bulkDelete" => last.ids \cap caughtIds = {}

\* C7: releasePokemon with a non-empty list, running alone: if the bulk delete
\* succeeds caughtIds is the set at the call minus the given identifiers, and if
\* it fails caughtIds is exactly the set at the call.
C7_ReleaseAllOrNothing ==
    (last.op = "releasePokemon" /\ last.at = "bulkDelete")
        => /\ LastCall.n = last.n
           /\ LastCall.ids # {}
           /\ caughtIds = IF last.log = "error"
                          THEN LastCall.pre
                          ELSE LastCall.pre \ LastCall.ids

C7_Witness ==
    /\ last.op = "releasePokemon" /\ last.at = "bulkDelete" /\ last.log = "error"
    /\ Cardinality(last.ids) > 1
    /\ last.ids \subseteq caughtIds

\* A catchPokemon call for an identifier not in caughtIds, completed, and then a
\* releasePokemon call for exactly that identifier, completed.
RoundTripDone ==
    /\ Len(hist) = 2
    /\ hist[1].op = "catchPokemon" /\ hist[1].out \in {"ok", "failed"}
    /\ hist[2].op = "releasePokemon" /\ hist[2].out \in {"ok", "failed"}
    /\ hist[2].ids = hist[1].ids

\* C8 as stated: whatever the persistence calls do, capture then release leaves
\* caughtIds equal to its value before the capture.
C8_RoundTripAnyOutcome == RoundTripDone => caughtIds = hist[1].pre

\* C8 amended: capture then release leaves caughtIds equal to its value before
\* the capture when the capture was rolled back or the bulk delete succeeds;
\* when the capture persisted and the bulk delete fails, caughtIds is the value
\* before the capture plus the identifier.
C8_RoundTrip ==
    RoundTripDone =>
        caughtIds = IF hist[1].out = "ok" /\ hist[2].out = "failed"
                    THEN hist[1].pre \cup hist[1].ids
                    ELSE hist[1].pre

C8_Witness ==
    /\ RoundTripDone
    /\ hist[1].out = "ok" /\ hist[2].out = "ok"
    /\ hist[1].pre # {}
    /\ caughtIds = hist[1].pre

\* C9: the table never holds two records with one identifier, and no step of
\* catchPokemon removes or changes a record the table already holds.
OneRecordPerId == \A r1, r2 \in rows : r1.id = r2.id => r1 = r2

C9_NoOverwrite ==
    /\ []OneRecordPerId
    /\ [][last'.op = "catchPokemon" => rows \subseteq rows']_vars

C9_Witness ==
    /\ ~isInitialized
    /\ last.op = "catchPokemon" /\ last.at = "add" /\ last.log = "error"
    /\ \E r \in rows : r.id \in last.ids /\ r.caughtAt = 0

\* C10: for a page of N references of which K detail lookups fail,
\* getPokemonList returns the N-K entities that succeeded and logs one warning
\* with the count K when K > 0, none when K = 0.
Rejected == {k \in DOMAIN lf.settled : lf.settled[k] = "rejected"}

C10_PartialFailure ==
    lf.pc = "returned"
        => /\ Len(lf.result) = Len(lf.refs) - Cardinality(Rejected)
           /\ \A k \in DOMAIN lf.refs :
                  (k \notin Rejected) <=>
                      (\E j \in DOMAIN lf.result : ToString(lf.result[j]) = IdFromUrl(lf.refs[k].url))
           /\ lf.warns = IF Cardinality(Rejected) > 0
                         THEN <<Cardinality(Rejected)>>
                         ELSE <<>>

C10_Witness ==
    /\ lf.pc = "returned"
    /\ Len(lf.refs) = 3
    /\ Cardinality(Rejected) = 1
    /\ Len(lf.result) = 2

\* C11: getPokemonList rejects exactly when the listing request fails; detail
\* lookups that fail, all of them included, never make it reject.
C11_RejectsOnlyOnListingFailure ==
    /\ lf.pc = "rejected" <=> lf.listing = "rejected"
    /\ lf.listing = "fulfilled" => lf.pc \in {"details", "returned"}
    /\ (lf.pc = "details" /\ \A k \in DOMAIN lf.settled : lf.settled[k] # "pending")
           => ENABLED AllSettled

C11_Witness ==
    /\ lf.pc = "returned"
    /\ Len(lf.refs) = 3
    /\ \A k \in DOMAIN lf.settled : lf.settled[k] = "rejected"
    /\ lf.result = <<>>

\* C12: the feed has no next page exactly when the listing of its last page
\* returned no reference; otherwise the next offset is the number of pages
\* loaded times 20, and page i was requested at offset (i - 1) * 20, limit 20.
C12_FeedCursor ==
    /\ (feed.pc = "idle" /\ feed.pages # <<>>)
           => /\ ~HasNextPage <=> feed.listed[Len(feed.listed)] = 0
              /\ HasNextPage => NextPageParam = <<Len(feed.pages) * 20>>
    /\ \A i \in DOMAIN feed.pageParams : feed.pageParams[i] = (i - 1) * 20
    /\ feed.pc = "fetching" => lf.limit = 20

\* The view contexts of the details screen, from the request and the record the
\* local lookup delivered; a marker is present when the request carries a
\* non-empty caughtAt value.
MarkerPresent == dh.sharedDateStr \notin {<<>>, <<"">>}

LocalPresent == dh.localPokemon # <<>>

SharedContext == MarkerPresent

OwnerContext == ~MarkerPresent /\ LocalPresent

DiscoveryContext == ~MarkerPresent /\ ~LocalPresent

\* C13: the resolved entity is the remote entity when the marker is present, the
\* local record when the marker is absent and a local record is present, the
\* remote entity otherwise; exactly one of the three view contexts applies.
C13_ResolutionTable ==
    dh.pc # "unmounted" =>
        /\ SharedContext => ResolvedPokemon = ApiPokemon
        /\ OwnerContext => ResolvedPokemon = dh.localPokemon
        /\ DiscoveryContext => ResolvedPokemon = ApiPokemon
        /\ Cardinality({c \in {"shared", "owner", "discovery"} :
                           \/ c = "shared" /\ SharedContext
                           \/ c = "owner" /\ OwnerContext
                           \/ c = "discovery" /\ DiscoveryContext}) = 1

C13_Witness ==
    /\ dh.pc = "mounted"
    /\ SharedContext
    /\ LocalPresent
    /\ ApiPokemon = <<GetPokemonById(dh.id)>>
    /\ dh.localPokemon[1].id = dh.id
    /\ ResolvedPokemon = ApiPokemon

\* Every value the local lookup can deliver.
LocalValues ==
    {<<>>} \cup {<<CaughtPokemon(i, at, img, NoNote)>> :
                    i \in Ids, at \in 0..MaxOps, img \in {"b64", "url"}}

\* C14: in shared view the resolved entity and the display date are what they
\* would be with any other outcome of the local lookup, whatever record it
\* delivers and whether or not it has completed; the date is the marker's.
C14_SharedViewIgnoresLocal ==
    (dh.pc # "unmounted" /\ SharedContext) =>
        /\ \A l \in LocalValues :
              /\ Pokemon(IsSharedView(dh.sharedDateStr), l, ApiPokemon) = ResolvedPokemon
              /\ DisplayDate(dh.sharedDateStr, l) = ResolvedDate
        /\ ResolvedPokemon \in {<<>>, <<GetPokemonById(dh.id)>>}
        /\ ResolvedDate = <<NewDate(dh.sharedDateStr[1])>>

C14_Witness ==
    /\ dh.pc = "mounted"
    /\ SharedContext
    /\ LocalPresent
    /\ ~dh.isLocalLoading
    /\ dh.localPokemon[1].id = dh.id
    /\ ResolvedDate = <<NewDate(dh.sharedDateStr[1])>>
    /\ ResolvedDate # <<CopyDate(dh.localPokemon[1].caughtAt)>>

\* What the claims call outstanding and failed: the remote fetch of the current
\* key is in flight, or ended in an error; the hook's flag for its local lookup.
RemoteOutstanding == dh.api[dh.id].fetching

RemoteFailed == dh.api[dh.id].status = "error"

LocalOutstanding == dh.isLocalLoading

\* A lookup issued by the current run of the effect is in flight.
LookupInFlight == \E l \in dh.lookups : l.mounted

\* C15: isError holds exactly when the remote fetch failed, the local lookup
\* delivered no record, the view is not shared and the local lookup has
\* completed; in owner view the local record is resolved and isError is false.
\* Once the effects of a render have run, the flag says completed exactly when
\* no lookup of the current identifier is in flight.
C15_ErrorState ==
    dh.pc # "unmounted" =>
        /\ IsError <=> (RemoteFailed /\ ~LocalPresent /\ ~MarkerPresent /\ ~LocalOutstanding)
        /\ OwnerContext => (~IsError /\ ResolvedPokemon = dh.localPokemon)
        /\ dh.pc = "mounted" => (LocalOutstanding <=> LookupInFlight)

C15_Witness ==
    /\ dh.pc = "mounted"
    /\ RemoteFailed
    /\ OwnerContext
    /\ ApiPokemon = <<>>
    /\ ~IsError
    /\ ResolvedPokemon = Get(dh.id)

\* C16 as stated: the loading flag is (remote fetch outstanding or local lookup
\* outstanding) and no resolved value, in every view.
C16_LoadingInEveryView ==
    dh.pc # "unmounted" =>
        (IsLoading <=> ((RemoteOutstanding \/ LocalOutstanding) /\ ResolvedPokemon = <<>>))

\* C16, amended: the local lookup counts only when the view is not shared.
C16_Loading ==
    dh.pc # "unmounted" =>
        (IsLoading <=> /\ RemoteOutstanding \/ (LocalOutstanding /\ ~MarkerPresent)
                       /\ ResolvedPokemon = <<>>)

C16_Witness ==
    /\ dh.pc = "mounted"
    /\ SharedContext
    /\ LocalOutstanding
    /\ LookupInFlight
    /\ RemoteFailed
    /\ ~RemoteOutstanding
    /\ ResolvedPokemon = <<>>
    /\ ~IsLoading

\* The key whose data the results observer is showing.
ShownKey ==
    IF CurrentKey \in DOMAIN sh.results /\ sh.results[CurrentKey].data # <<>>
    THEN CurrentKey
    ELSE sh.lastDefined[1]

\* C17: while searching, the results exposed were hydrated for the current query
\* string, at a page not above the current one, and every entity in them
\* matches the current query string.
C17_ResultsOfCurrentQuery ==
    (sh.pc # "unmounted" /\ IsSearching /\ SearchResults # <<>>) =>
        /\ ShownKey[1] = sh.searchQuery
        /\ ShownKey[2] <= sh.page
        /\ \A i \in 1..Len(SearchResults[1]) :
              Matches(NameOf(SearchResults[1][i]), sh.searchQuery)

\* C18: once the hydration of the current query and page has completed, the
\* results exposed are that hydration's, and a step that leaves the query
\* string, the page and the query of the current key alone (a response for
\* another key arriving) leaves the exposed results alone.
C18_LastQueryWins ==
    /\ [](  (sh.pc = "settled" /\ CurrentKey \in DOMAIN sh.results
                /\ sh.results[CurrentKey].status = "success")
          => SearchResults =
                <<Hydrated(ItemsToShow(AllPokemonNames, sh.searchQuery, sh.page))>>)
    /\ [][  (/\ sh.pc = "settled"
             /\ CurrentKey' = CurrentKey
             /\ CurrentKey \in DOMAIN sh.results
             /\ sh.results'[CurrentKey] = sh.results[CurrentKey])
          => SearchResults' = SearchResults]_vars

C18_Witness ==
    /\ sh.pc = "settled"
    /\ sh.late
    /\ sh.searchQuery = <<"b", "u">>
    /\ sh.results[CurrentKey].status = "success"
    /\ \E k \in DOMAIN sh.results : k[1] = <<"p", "i">> /\ sh.results[k].status = "success"
    /\ SearchResults = <<Hydrated(ItemsToShow(AllPokemonNames, <<"b", "u">>, 1))>>

\* C19: with no loadMore call since the query string last changed the page is 1
\* once the effects have run, and every hydration issued resolves at most 20
\* entries per page asked for: 20 until loadMore is called for that query.
C19_ResetBeforeHydration ==
    /\ (sh.pc = "settled" /\ sh.mores = 0) => sh.page = 1
    /\ sh.issued # <<>> => sh.issued[1].count <= 20 * (1 + sh.issued[1].mores)

\* Letters that differ in case only.
SameLetter(a, b) ==
    a = b \/ {a, b} \in {{"b", "B"}, {"i", "I"}, {"p", "P"}, {"u", "U"}}

PrefixIgnoringCase(name, query) ==
    /\ Len(query) <= Len(name)
    /\ \A i \in 1..Len(query) : SameLetter(name[i], query[i])

\* seq is the subsequence of index, in the order of index, of the entries whose
\* name starts with query: its i-th element is the entry at the i-th smallest
\* matching position.
IsPrefixScan(seq, index, query) ==
    LET hits == {k \in 1..Len(index) : PrefixIgnoringCase(index[k].name, query)}
    IN  /\ Len(seq) = Cardinality(hits)
        /\ \A k \in hits : seq[Cardinality({j \in hits : j <= k})] = index[k]

\* The index of the example: pikachu, pidgey, bulbasaur.
ExampleIndex ==
    << [name |-> <<"p", "i", "k", "a", "c", "h", "u">>, url |-> Reference(25).url],
       [name |-> <<"p", "i", "d", "g", "e", "y">>, url |-> Reference(16).url],
       [name |-> <<"b", "u", "l", "b", "a", "s", "a", "u", "r">>, url |-> Reference(1).url] >>

\* C20: the filter returns exactly the index entries whose name starts with the
\* query string, compared without regard to case, in the order of the index;
\* "pi" over pikachu, pidgey, bulbasaur gives pikachu, pidgey.
C20_PrefixFilter ==
    /\ AllNames # <<>> =>
          \A q \in {sh.searchQuery} \cup {k[1] : k \in DOMAIN sh.results} :
              IsPrefixScan(Filtered(AllNames[1], q), AllNames[1], q)
    /\ Filtered(ExampleIndex, <<"p", "i">>) = <<ExampleIndex[1], ExampleIndex[2]>>

C20_Witness ==
    /\ sh.pc = "settled"
    /\ sh.searchQuery = <<"P", "I">>
    /\ TotalResults = IndexSize - IndexSize \div 8
    /\ CurrentKey \in DOMAIN sh.results
    /\ sh.results[CurrentKey].status = "success"
    /\ SubSeq(SearchResults[1], 1, 9) = <<1, 2, 3, 4, 5, 6, 7, 9, 10>>

\* C21: a request, for the name index or for a hydration lookup, is issued only
\* once a query string of two characters or more has been entered.
C21_LazyIndex == sh.requested => sh.searched

\* C22: once an index request has succeeded, no index request is issued again.
C22_IndexFetchedOnce == ~sh.again

\* The positions of the index whose name starts with query, in index order,
\* for every query string that is typed.
MatchingPositions(query) ==
    {k \in 1..Len(AllPokemonNames) : PrefixIgnoringCase(AllPokemonNames[k].name, query)}

Ranked(positions) ==
    [i \in 1..Cardinality(positions) |->
        CHOOSE k \in positions : Cardinality({j \in positions : j <= k}) = i]

MatchTable == [q \in Queries \cup {<<>>} |-> Ranked(MatchingPositions(q))]

MatchCount(query) == Len(MatchTable[query])

NthMatch(query, i) == MatchTable[query][i]

WindowSize(key) == Min(20 * key[2], MatchCount(key[1]))

IsWindow(list, key) ==
    /\ Len(list) = WindowSize(key)
    /\ \A i \in 1..Len(list) :
          list[i] = AdaptPokemon(IdFromUrl(AllPokemonNames[NthMatch(key[1], i)].url))

\* C23: the hydration of query q at page p looks up exactly the first
\* min(20 * p, T) matching entries, T being the number of matches, one lookup
\* per entry, and when it succeeds its result is the entities of those
\* entries, in order; a loadMore raises the page by exactly one.
C23_HydrationWindow ==
    /\ [](/\ sh.issued # <<>> => sh.issued[1].count = WindowSize(sh.issued[1].key)
          /\ \A key \in DOMAIN sh.results :
                sh.results[key].status = "success" => IsWindow(sh.results[key].data[1], key))
    /\ [][sh'.mores > sh.mores =>
              /\ sh'.mores = sh.mores + 1
              /\ sh'.page = sh.page + 1
              /\ sh'.searchQuery = sh.searchQuery]_vars

C23_Witness ==
    /\ sh.mores = 1
    /\ sh.page = 2
    /\ sh.issued # <<>>
    /\ sh.issued[1].key = CurrentKey
    /\ sh.issued[1].count = IndexSize - IndexSize \div 8
    /\ CurrentKey \in DOMAIN sh.results
    /\ sh.results[CurrentKey].status = "success"
    /\ Len(sh.results[CurrentKey].data[1]) > 20

\* The number of results the hook exposes, and the number of entries of the
\* index it holds that match the current query.
ExposedCount == IF SearchResults = <<>> THEN 0 ELSE Len(SearchResults[1])

MatchingCount == IF AllNames = <<>> THEN 0 ELSE MatchCount(sh.searchQuery)

\* C24: hasMoreResults is true exactly when fewer results are exposed than
\* index entries match the current query; once the hydration of the current
\* query at page p has completed, it is true exactly when 20 * p is below the
\* number of matches.
C24_HasMoreResults ==
    sh.pc # "unmounted" =>
        /\ HasMoreResults <=> ExposedCount < MatchingCount
        /\ (CurrentKey \in DOMAIN sh.results /\ sh.results[CurrentKey].status = "success")
              => (HasMoreResults <=> 20 * sh.page < MatchCount(sh.searchQuery))

C24_Witness ==
    /\ sh.pc = "settled"
    /\ sh.page = 2
    /\ CurrentKey \in DOMAIN sh.results
    /\ sh.results[CurrentKey].status = "success"
    /\ ExposedCount = MatchingCount
    /\ MatchingCount > 20
    /\ ~HasMoreResults

\* C25: a hydration in which any lookup fails fails as a whole: its query
\* holds no list, and every list a query holds or the hook exposes is the
\* complete window of one key, no entry dropped.
C25_AllOrNothing ==
    /\ \A key \in DOMAIN sh.results :
          /\ sh.results[key].status = "error" =>
                sh.results[key].data = <<>> /\ sh.results[key].error \in 1..WindowSize(key)
          /\ sh.results[key].data # <<>> =>
                sh.results[key].status = "success" /\ IsWindow(sh.results[key].data[1], key)
    /\ (sh.pc # "unmounted" /\ SearchResults # <<>>) =>
          \E key \in DOMAIN sh.results :
              SearchResults = sh.results[key].data /\ Len(SearchResults[1]) = WindowSize(key)

C25_Witness ==
    /\ sh.pc = "settled"
    /\ CurrentKey \in DOMAIN sh.results
    /\ sh.results[CurrentKey].status = "error"
    /\ sh.results[CurrentKey].error = WindowSize(CurrentKey)
    /\ WindowSize(CurrentKey) > 1
    /\ SearchResults = <<>>

\* What the two note texts come to: the short one trimmed, the 250-character
\* one cut to its first 200 characters.
ShortNoteWritten == <<"a", " ", "b">>

LongNoteWritten == [k \in 1..200 |-> LongNote[k]]

\* C26: updatePokemonNote writes the trimmed text cut to its first 200
\* characters: no stored note is longer than 200 characters, an over-length
\* note is cut and written rather than rejected, and the 250-character input
\* is stored as its first 200 characters.
C26_NoteTruncated ==
    /\ \A r \in rows :
          Len(r.note) <= 200 /\ r.note \in {NoNote, ShortNoteWritten, LongNoteWritten}
    /\ \A c \in calls :
          c.op = "updatePokemonNote" => c.note \in {ShortNoteWritten, LongNoteWritten}
    /\ (last.op = "updatePokemonNote" /\ last.ev = "call") =>
          \E c \in calls :
              /\ c.n = last.n
              /\ c.pc = "update"
              /\ last.log = "warn" <=> c.note = LongNoteWritten
    /\ (last.op = "updatePokemonNote" /\ last.ev = "return" /\ last.log = "none") =>
          \A r \in rows : r.id \in last.ids => r.note \in {ShortNoteWritten, LongNoteWritten}

C26_Witness ==
    /\ last.op = "updatePokemonNote"
    /\ last.ev = "return"
    /\ last.log = "none"
    /\ \E r \in rows : r.id \in last.ids /\ r.note = LongNoteWritten /\ Len(r.note) = 200

\* C27: convertImageUrlToBase64 never rejects: whatever fails, it resolves with
\* the original address, so no catchPokemon ends, rolled back, at the image
\* conversion.
C27_ConvertTotal ==
    ~(last.op = "catchPokemon" /\ last.ev = "return" /\ last.at = "convert")

\* C28: every record of the table holds an embedded image, never a remote
\* address, whatever the image conversion came to.
C28_EmbeddedImages == \A r \in rows : r.imageUrl = "b64"

\* A step that invokes initialize.
InitializeInvoked == now' # now /\ last'.op = "initialize"

\* C29: an initialize invoked while isInitialized is true issues no read of the
\* table and leaves caughtIds and isInitialized as they are, also when the
\* table no longer holds what caughtIds says.
C29_InitializeIdempotent ==
    [][(InitializeInvoked /\ isInitialized) =>
          /\ last'.ev = "return"
          /\ last'.io = "none"
          /\ calls' = calls
          /\ caughtIds' = caughtIds
          /\ isInitialized' = isInitialized
          /\ rows' = rows]_vars

C29_Witness ==
    /\ last.op = "initialize"
    /\ last.ev = "return"
    /\ last.at = "entry"
    /\ isInitialized
    /\ calls = {}
    /\ caughtIds # RowIds

\* C30: when the read of the whole table fails, initialize returns having
\* logged the failure, caughtIds and isInitialized stay as they were (empty
\* and false when initialize is the first call), and an initialize invoked
\* afterwards reads the table again.
C30_InitializeFailsSoft ==
    /\ [](/\ (last.op = "initialize" /\ last.log = "error") =>
                /\ last.ev = "return"
                /\ ~isInitialized
                /\ caughtIds = LastCall.pre
                /\ LastCall.out = "failed"
                /\ last.n = 1 => caughtIds = {}
          /\ \A k \in DOMAIN hist :
                (hist[k].op = "initialize" /\ hist[k].out = "failed") =>
                    hist[k].post = hist[k].pre)
    /\ [][(InitializeInvoked /\ ~isInitialized) =>
              /\ last'.ev = "call"
              /\ last'.io = "toArray"
              /\ \E c \in calls' \ calls : c.op = "initialize" /\ c.pc = "toArray"]_vars

C30_Witness ==
    /\ Len(hist) = 2
    /\ hist[1].op = "initialize"
    /\ hist[1].out = "failed"
    /\ hist[2].op = "initialize"
    /\ hist[2].out = "pending"
    /\ last.io = "toArray"
    /\ caughtIds = {}
    /\ ~isInitialized
    /\ rows # {}

\* C31: getPokemonList issues one detail lookup per listed reference, all of
\* them before it waits for any, returns only when every one has settled, and,
\* the lookups settling, does return.
C31_WaitsForAll ==
    /\ [](/\ lf.listing = "fulfilled" => Len(lf.settled) = Len(lf.refs)
          /\ lf.pc = "returned" => \A k \in DOMAIN lf.refs : lf.settled[k] # "pending"
          /\ (lf.pc = "details" /\ \E k \in DOMAIN lf.settled : lf.settled[k] = "pending")
                => ~ENABLED AllSettled)
    /\ [][lf.pc = "listing" /\ lf'.pc = "details" =>
              \A k \in DOMAIN lf'.refs : lf'.settled[k] = "pending"]_vars
    /\ (lf.pc = "details" ~> lf.pc = "returned")

C31_Witness ==
    /\ lf.pc = "returned"
    /\ Len(lf.refs) = 3
    /\ lf.settled = <<"rejected", "fulfilled", "fulfilled">>
    /\ Len(lf.result) = 2

\* The positions of the listing whose lookup was fulfilled.
FulfilledPositions == {k \in DOMAIN lf.settled : lf.settled[k] = "fulfilled"}

\* C32: the entities getPokemonList returns, and those a search hydration
\* returns, stand in the order of their references in the listing and in the
\* index, in whatever order the lookups completed.
C32_IndexStableOrder ==
    /\ lf.pc = "returned" =>
          /\ Len(lf.result) = Cardinality(FulfilledPositions)
          /\ \A k \in FulfilledPositions :
                ToString(lf.result[Cardinality({j \in FulfilledPositions : j <= k})])
                    = IdFromUrl(lf.refs[k].url)
    /\ \A key \in DOMAIN sh.results :
          sh.results[key].status = "success" => IsWindow(sh.results[key].data[1], key)

C32_Witness ==
    /\ lf.pc = "returned"
    /\ lf.order = <<3, 1, 2>>
    /\ lf.settled = <<"fulfilled", "fulfilled", "fulfilled">>
    /\ \A i \in 1..3 : ToString(lf.result[i]) = IdFromUrl(lf.refs[i].url)
    /\ CurrentKey \in DOMAIN sh.results
    /\ sh.results[CurrentKey].status = "success"
    /\ Len(sh.results[CurrentKey].data[1]) > 1

\* C33: the link handleShare builds is <origin>/pokemon/<id> for the requested
\* identifier, and it carries the caughtAt marker exactly when there is a local
\* record with a capture date for that identifier, the marker's value being
\* that capture date.
C33_ShareLink ==
    dh.share # <<>> =>
        LET s == dh.share[1]
        IN  /\ s.url.origin = Origin
            /\ s.url.path = <<"pokemon", s.id>>
            /\ s.url.caughtAt # <<>> =>
                  /\ HasKey(s.id)
                  /\ s.url.caughtAt = <<ToISOString(Get(s.id)[1].caughtAt)>>
            /\ (s.local # <<>> /\ s.local[1].id = s.id) => s.url.caughtAt # <<>>

\* C34: handleShare tries the modern clipboard call first when it is offered in
\* a secure context and returns true when it succeeds, the fallback not run;
\* when it is not offered or throws the fallback runs exactly once and its
\* success is returned; the result is always a boolean.
C34_ClipboardFallback ==
    dh.share # <<>> =>
        LET o == dh.share[1].offered
            c == dh.share[1].copy
        IN  /\ c.result \in BOOLEAN
            /\ c.modern = IF o.clipboard /\ o.secure THEN 1 ELSE 0
            /\ (o.clipboard /\ o.secure /\ o.write = "ok")
                  => (c.result /\ c.legacy = 0)
            /\ ~(o.clipboard /\ o.secure /\ o.write = "ok")
                  => (c.legacy = 1 /\ (c.result <=> o.legacy = "true"))

C34_Witness ==
    /\ dh.share # <<>>
    /\ dh.share[1].offered = [clipboard |-> TRUE, secure |-> TRUE,
                              write |-> "throw", legacy |-> "true"]
    /\ dh.share[1].copy.modern = 1
    /\ dh.share[1].copy.legacy = 1
    /\ dh.share[1].copy.result

\* C35: no step of updatePokemonNote changes caughtIds or isInitialized, adds
\* or removes a record, or changes anything but the note of the record with
\* the given identifier; when the write fails the table is as it was.
C35_NoteFrame ==
    [][last'.op = "updatePokemonNote" =>
          /\ caughtIds' = caughtIds
          /\ isInitialized' = isInitialized
          /\ {r.id : r \in rows'} = {r.id : r \in rows}
          /\ \A r \in rows :
                \E t \in rows' :
                    /\ t = [r EXCEPT !.note = t.note]
                    /\ r.id \notin last'.ids => t = r
          /\ last'.log = "error" => (last'.ev = "return" /\ rows' = rows)
          /\ last'.ev = "call" => rows' = rows]_vars

C35_Witness ==
    /\ last.op = "updatePokemonNote"
    /\ last.ev = "return"
    /\ last.log = "none"
    /\ \E r \in rows : r.id \in last.ids /\ r.note = ShortNoteWritten
    /\ \E r \in rows : r.id \notin last.ids /\ r.note = NoNote

\* C36: a catchPokemon invoked for an identifier while an earlier one for the
\* same identifier has not finished persisting is turned away as a duplicate:
\* no two captures of one identifier are in flight, so at most one insert is
\* issued for it.
C36_OneInsertPerIdentifier ==
    \A i \in Ids :
        Cardinality({c \in calls : c.op = "catchPokemon" /\ i \in c.ids}) <= 1

\* C37: the entity the hook resolves is that of the identifier requested: after
\* the identifier has changed, the record of the previous identifier is never
\* returned, whether the new lookup is outstanding, has failed, or a response
\* for the previous identifier comes late.
C37_ResolvedIsRequested ==
    (dh.pc # "unmounted" /\ ResolvedPokemon # <<>>) => ResolvedPokemon[1].id = dh.id

\* C38: at every moment the hook has a resolved entity, or is loading, or is in
\* error, and it is never loading and in error at once.
C38_NoLimbo ==
    dh.pc # "unmounted" =>
        /\ ResolvedPokemon # <<>> \/ IsLoading \/ IsError
        /\ ~(IsLoading /\ IsError)

\* C39: handleRelease does nothing when nothing is selected; otherwise it calls
\* releasePokemon once, with exactly the selected identifiers, and when that
\* call returns, the release persisted or rolled back, selection mode is off
\* and the selection is empty.
C39_HandleRelease ==
    /\ [][col'.handled # col.handled =>
              IF col.selectedIds = {}
              THEN /\ <<caughtIds, isInitialized, rows, calls, now, last>>' =
                          <<caughtIds, isInitialized, rows, calls, now, last>>
                   /\ col'.isSelectionMode = col.isSelectionMode
                   /\ col'.selectedIds = col.selectedIds
                   /\ col'.awaiting = col.awaiting
              ELSE /\ now' = now + 1
                   /\ last' = Event("releasePokemon", "call", now', col.selectedIds,
                                    "entry", "bulkDelete", "none")
                   /\ Cardinality(calls' \ calls) = 1
                   /\ \A c \in calls' \ calls :
                         c.op = "releasePokemon" /\ c.ids = col.selectedIds /\ c.n = now'
                   /\ col'.awaiting = col.awaiting \cup {now'}]_vars
    /\ [][\A n \in col.awaiting :
              (\A c \in calls' : c.n # n) =>
                  /\ last'.op = "releasePokemon" /\ last'.ev = "return" /\ last'.n = n
                  /\ ~col'.isSelectionMode
                  /\ col'.selectedIds = {}
                  /\ n \notin col'.awaiting]_vars

C39_Witness ==
    /\ col.ran = "resumed"
    /\ last.op = "releasePokemon"
    /\ last.ev = "return"
    /\ last.log = "error"
    /\ caughtIds # {}
    /\ caughtIds \cap last.ids # {}
    /\ ~col.isSelectionMode
    /\ col.selectedIds = {}
    /\ col.awaiting = {}

====
